---- MODULE Spec2Model ----
(***************************************************************************)
(* ConnectionsController.vue: the live/closed connection ledger, the       *)
(* per-identity traffic cache, the keyword filter and the row menu.        *)
(*                                                                         *)
(* Strings whose content matters (hosts, keywords, rule expressions) are   *)
(* sequences of one-character strings, so that concatenation and           *)
(* String.prototype.includes are computed and not assumed.                 *)
(***************************************************************************)
EXTENDS Integers, Sequences, FiniteSets, TLC

\* ---------------------------------------------------------------- bounds
\* largest number of connections in one batch
MaxBatch == 2
\* batches stop arriving once the closed set would grow past this
MaxClosed == 2
\* largest cumulative byte counter a batch reports in the traffic runs
MaxCounter == 2
\* as MaxClosed, for the traffic runs
MaxTrafficClosed == 1

\* ---------------------------------------------------------------- inputs
\* kernel-assigned connection identities
Ids == {"c1", "c2"}

\* metadata the kernel reports for each identity: one connection with a
\* host, one without (host is the empty string)
MetadataOf(id) ==
    IF id = "c1"
    THEN [host |-> <<"A", "b">>, destinationIP |-> <<"1", ".", "2">>]
    ELSE [host |-> <<>>, destinationIP |-> <<"3", ".", "4">>]

\* one element of KernelConnectionsWS['connections']
Connection(i, u, d) ==
    [id |-> i, upload |-> u, download |-> d, metadata |-> MetadataOf(i)]

RECURSIVE SeqsUpTo(_, _)
SeqsUpTo(S, n) ==
    IF n = 0 THEN {<<>>}
    ELSE LET shorter == SeqsUpTo(S, n - 1)
         IN  shorter \cup { Append(s, x) : s \in { t \in shorter : Len(t) = n - 1 }, x \in S }

\* a payload whose "connections" is null or missing
NoConnections == [none |-> TRUE]

\* the payloads getKernelConnectionsWS hands to onConnections in the ledger
\* runs: any connections, in any order, repeated or not, each idle (its
\* counters do not move)
IdleConnections == { Connection(i, 1, 0) : i \in Ids }

Payloads ==
    { [connections |-> c] : c \in SeqsUpTo(IdleConnections, MaxBatch) } \cup {NoConnections}

\* the payloads of the traffic runs: one connection, reported once or twice
\* in a batch, or none; its upload counter takes any value from one report
\* to the next (it may grow, stand still, fall, be zero) and its download
\* counter is the next value round the same range, so that both move and
\* never agree
Counters == 0..MaxCounter

TrafficConnections ==
    { Connection("c1", u, (u + 1) % (MaxCounter + 1)) : u \in Counters }

TrafficPayloads ==
    { [connections |-> <<c>>] : c \in TrafficConnections }
        \cup { [connections |-> <<c, d>>] : c \in TrafficConnections, d \in TrafficConnections }
        \cup { [connections |-> <<>>], NoConnections }

\* what the user can type into the search box
Keywords == { <<>>, <<"A">>, <<"a">>, <<"b">>, <<"A", "b">>, <<"b", "A">> }

Rulesets == {"direct", "proxy", "reject"}

\* what the user can type into the url input of QuickStart
Urls ==
    { <<>>, <<"h", "t", "t", "p">>, <<"H", "t", "T", "p", "s">>,
      <<"f", "t", "p">>, <<"x", "h", "t", "t", "p">> }

\* what sampleID() can return
SampleIds == {"id1", "id2"}

\* kernel.profile before any profile is selected
NoProfile == "none"

\* no handleSubmit is in flight
Idle == [at |-> "idle"]

\* how many ids sampleID() returns to the proxy-group editor
MaxSampled == 2

\* how many proxies a group of the form holds
MaxProxies == 1

\* the n-th id sampleID() returns to the proxy-group editor
SampledId(n) == "g" \o ToString(n)

\* what the user can type into the name input of the form
Names == {"A", "DIRECT"}

\* an entry of a selectable list, or a proxy of a group
Option(id, name, type) == [id |-> id, name |-> name, type |-> type]

\* a group as the form holds it; the fields the editor's handlers never read
\* are left out
Fields(id, name) ==
    [id |-> id, name |-> name, type |-> "select", proxies |-> <<>>, use |-> <<>>]

\* subscribesStore.subscribes: one subscription with one proxy
subscribes ==
    << [id |-> "s1", name |-> "sub",
        proxies |-> <<Option("p1", "A", "ss")>>] >>

\* a group saved while a subscription s0, since removed, was in the store
Legacy ==
    [Fields("g0", "A") EXCEPT
        !.proxies = <<Option("p0", "B", "s0")>>,
        !.use = <<"s0">>]

\* the groups of the profile when the editor is opened
InitialGroups == { <<Legacy>> }

\* proxyGroup as the setup builds it: the two fixed lists, then one list for
\* every subscription of the store
InitialProxyGroup(gs) ==
    << [id |-> "Built-In", name |-> "kernel.proxyGroups.builtIn",
        proxies |-> <<Option("DIRECT", "DIRECT", "Built-In"),
                      Option("REJECT", "REJECT", "Built-In")>>
                    \o [i \in 1..Len(gs) |-> Option(gs[i].id, gs[i].name, gs[i].type)]],
       [id |-> "Subscribes", name |-> "kernel.proxyGroups.subscriptions",
        proxies |-> [i \in 1..Len(subscribes) |->
                        Option(subscribes[i].id, subscribes[i].name, "use")]] >>
        \o [i \in 1..Len(subscribes) |->
                [id |-> subscribes[i].id, name |-> subscribes[i].name,
                 proxies |-> subscribes[i].proxies]]

\* ---------------------------------------------------------------- state
VARIABLES
    TrafficCache,       \* Record<string, {up, down}>, module scope
    dataSource,         \* the live set
    disconnectedData,   \* the closed set
    isActive,           \* radio: live (TRUE) or closed (FALSE) view
    isPause,
    keywords,
    skipped,            \* a batch was discarded since the last applied one
    lastCall,           \* the handler that ran last, with its inputs
    effects,            \* the external calls and messages it issued, in order
    url,                \* QuickStart: the input bound to url
    loading,            \* QuickStart: ref(false)
    kernelProfile,      \* appSettingsStore.app.kernel.profile
    open,               \* the QuickStart dialog is shown (closed by handleCancel)
    pending,            \* the await handleSubmit is suspended at, with its locals
    groups,             \* proxy-group editor: defineModel, the groups of the profile
    updateGroupId,      \* -1 to add, else the index (from 0) of the group edited
    showModal,
    proxyGroup,         \* the selectable lists: Built-In, Subscribes, one per subscription
    fields,             \* the group in the form
    sampled             \* how many ids sampleID() has returned to the editor

\* the state of the connections table
controller ==
    <<TrafficCache, dataSource, disconnectedData, isActive, isPause, keywords, skipped>>

\* the state of the QuickStart dialog
quickStart == <<url, loading, kernelProfile, open, pending>>

\* the state of the proxy-group editor
editor == <<groups, updateGroupId, showModal, proxyGroup, fields, sampled>>

\* the state of the views other than the connections table
otherViews == <<quickStart, editor>>

vars == <<TrafficCache, dataSource, disconnectedData, isActive, isPause,
          keywords, skipped, lastCall, effects, otherViews>>

ledger == <<TrafficCache, dataSource, disconnectedData>>

\* ---------------------------------------------------------------- helpers
Range(s) == { s[i] : i \in 1..Len(s) }

IdsOf(s) == { s[i].id : i \in 1..Len(s) }

\* a || b on numbers: 0 is falsy
OrElse(a, b) == IF a # 0 THEN a ELSE b

\* cache?.up || connection.upload
PreviousUp(cache, connection) ==
    IF connection.id \in DOMAIN cache
    THEN OrElse(cache[connection.id].up, connection.upload)
    ELSE connection.upload

\* cache?.down || connection.download
PreviousDown(cache, connection) ==
    IF connection.id \in DOMAIN cache
    THEN OrElse(cache[connection.id].down, connection.download)
    ELSE connection.download

\* the body of the map callback: the enriched entry
Enrich(cache, connection) ==
    [id |-> connection.id,
     upload |-> connection.upload,
     download |-> connection.download,
     metadata |-> connection.metadata,
     up |-> PreviousUp(cache, connection),
     down |-> PreviousDown(cache, connection)]

\* TrafficCache[connection.id] = { down, up }
Remember(cache, connection) ==
    [i \in DOMAIN cache \cup {connection.id} |->
        IF i = connection.id
        THEN [up |-> connection.upload, down |-> connection.download]
        ELSE cache[i]]

\* connections.map(callback), left to right, threading the cache
RECURSIVE MapConnections(_, _, _)
MapConnections(connections, cache, done) ==
    IF connections = <<>>
    THEN [result |-> done, cache |-> cache]
    ELSE MapConnections(Tail(connections),
                        Remember(cache, Head(connections)),
                        Append(done, Enrich(cache, Head(connections))))

\* data.connections || []
ConnectionsOf(data) ==
    IF "connections" \in DOMAIN data THEN data.connections ELSE <<>>

\* connections.some((v) => v.id === connection.id)
Exist(connections, connection) ==
    \E i \in 1..Len(connections) : connections[i].id = connection.id

\* variant of Disconnected: the entries are recorded newest first
DisconnectedNewestFirst(live, connections) ==
    LET gone == SelectSeq(live, LAMBDA connection : ~Exist(connections, connection))
    IN  [i \in 1..Len(gone) |-> gone[Len(gone) + 1 - i]]

\* variant of Disconnected: the test on exist is lost and every live entry
\* is recorded
DisconnectedAll(live, connections) == live

\* the entries the forEach pushes onto disconnectedData, in dataSource order
Disconnected(live, connections) ==
    SelectSeq(live, LAMBDA connection : ~Exist(connections, connection))

\* variant of NewDataSource: the mapped batch is pushed onto the live set
\* instead of replacing it
NewDataSourcePushed(connections) ==
    dataSource \o MapConnections(connections, TrafficCache, <<>>).result

\* dataSource.value = connections.map(...)
NewDataSource(connections) ==
    MapConnections(connections, TrafficCache, <<>>).result

\* the speed columns: record.upload - value, record.download - value
UploadSpeed(record) == record.upload - record.up

DownSpeed(record) == record.download - record.down

\* variant of Includes: the match ignores case
IncludesIgnoreCase(text, part) ==
    LET LowerCase(t) == [i \in 1..Len(t) |-> IF t[i] = "A" THEN "a" ELSE t[i]]
    IN  \E i \in 1..(Len(text) - Len(part) + 1) :
            SubSeq(LowerCase(text), i, i + Len(part) - 1) = LowerCase(part)

\* String.prototype.includes, case-sensitive
Includes(text, part) ==
    \E i \in 1..(Len(text) - Len(part) + 1) :
        SubSeq(text, i, i + Len(part) - 1) = part

\* the set the radio selects
Selected == IF isActive THEN dataSource ELSE disconnectedData

filteredConnections ==
    IF keywords = <<>>
    THEN Selected
    ELSE SelectSeq(Selected,
                   LAMBDA connection : Includes(connection.metadata.host, keywords))

\* record.metadata.host ? 'DOMAIN' : 'IP-CIDR'
Behavior(record) ==
    IF record.metadata.host # <<>>
    THEN <<"D", "O", "M", "A", "I", "N">>
    ELSE <<"I", "P", "-", "C", "I", "D", "R">>

\* variant of RulePayload: (host || destinationIP) + '/32,no-resolve'
RulePayloadSuffixed(record) ==
    (IF record.metadata.host # <<>>
     THEN record.metadata.host
     ELSE record.metadata.destinationIP)
        \o <<"/", "3", "2", ",", "n", "o", "-", "r", "e", "s", "o", "l", "v", "e">>

\* record.metadata.host || record.metadata.destinationIP + '/32,no-resolve'
RulePayload(record) ==
    IF record.metadata.host # <<>>
    THEN record.metadata.host
    ELSE record.metadata.destinationIP
            \o <<"/", "3", "2", ",", "n", "o", "-", "r", "e", "s", "o", "l", "v", "e">>

\* behavior + ',' + payload
RuleOf(record) == Behavior(record) \o <<",">> \o RulePayload(record)

Effect(call, arg) == [call |-> call, arg |-> arg]

\* ---------------------------------------------------------------- Init
Init ==
    /\ TrafficCache = <<>>
    /\ dataSource = <<>>
    /\ disconnectedData = <<>>
    /\ isActive = TRUE
    /\ isPause = FALSE
    /\ keywords = <<>>
    /\ skipped = FALSE
    /\ lastCall = [op |-> "setup"]
    /\ effects = <<>>
    /\ url = <<>>
    /\ loading = FALSE
    /\ kernelProfile = NoProfile
    /\ open = TRUE
    /\ pending = Idle
    /\ groups \in InitialGroups
    /\ updateGroupId = 0
    /\ showModal = FALSE
    /\ proxyGroup = InitialProxyGroup(groups)
    /\ fields = Fields(SampledId(1), "")
    /\ sampled = 1

\* ---------------------------------------------------------------- actions
\* variant of onConnections: the test on isPause is lost and the batch is
\* applied while paused
onConnectionsThroughPause(data) ==
    LET connections == ConnectionsOf(data)
    IN  /\ effects' = <<>>
        /\ lastCall' = [op |-> "onConnections", applied |-> ~isPause,
                        data |-> data, afterGap |-> skipped,
                        gone |-> Len(Disconnected(dataSource, connections))]
        /\ disconnectedData' =
               disconnectedData \o Disconnected(dataSource, connections)
        /\ dataSource' = NewDataSource(connections)
        /\ TrafficCache' = MapConnections(connections, TrafficCache, <<>>).cache
        /\ skipped' = isPause
        /\ UNCHANGED <<isActive, isPause, keywords, otherViews>>

\* variant of onConnections: a batch that arrives while paused empties the
\* live set
onConnectionsBlankingOnPause(data) ==
    /\ effects' = <<>>
    /\ IF isPause
       THEN /\ lastCall' = [op |-> "onConnections", applied |-> FALSE]
            /\ skipped' = TRUE
            /\ dataSource' = <<>>
            /\ UNCHANGED <<TrafficCache, disconnectedData>>
       ELSE LET connections == ConnectionsOf(data)
            IN  /\ lastCall' = [op |-> "onConnections", applied |-> TRUE,
                                data |-> data, afterGap |-> skipped,
                                gone |-> Len(Disconnected(dataSource, connections))]
                /\ disconnectedData' =
                       disconnectedData \o Disconnected(dataSource, connections)
                /\ dataSource' = NewDataSource(connections)
                /\ TrafficCache' =
                       MapConnections(connections, TrafficCache, <<>>).cache
                /\ skipped' = FALSE
    /\ UNCHANGED <<isActive, isPause, keywords, otherViews>>

onConnections(data) ==
    /\ effects' = <<>>
    /\ IF isPause
       THEN /\ lastCall' = [op |-> "onConnections", applied |-> FALSE]
            /\ skipped' = TRUE
            /\ UNCHANGED ledger
       ELSE LET connections == ConnectionsOf(data)
            IN  /\ lastCall' = [op |-> "onConnections", applied |-> TRUE,
                                data |-> data, afterGap |-> skipped,
                                gone |-> Len(Disconnected(dataSource, connections))]
                /\ disconnectedData' =
                       disconnectedData \o Disconnected(dataSource, connections)
                /\ dataSource' = NewDataSource(connections)
                /\ TrafficCache' =
                       MapConnections(connections, TrafficCache, <<>>).cache
                /\ skipped' = FALSE
    /\ UNCHANGED <<isActive, isPause, keywords, otherViews>>

togglePause ==
    /\ isPause' = ~isPause
    /\ lastCall' = [op |-> "togglePause"]
    /\ effects' = <<>>
    /\ UNCHANGED <<ledger, isActive, keywords, skipped, otherViews>>

\* the radio bound to isActive
selectActive(v) ==
    /\ isActive' = v
    /\ lastCall' = [op |-> "selectActive"]
    /\ effects' = <<>>
    /\ UNCHANGED <<ledger, isPause, keywords, skipped, otherViews>>

\* the input bound to keywords
setKeywords(k) ==
    /\ keywords' = k
    /\ lastCall' = [op |-> "setKeywords"]
    /\ effects' = <<>>
    /\ UNCHANGED <<ledger, isActive, isPause, skipped, otherViews>>

\* variant of handleClearClosedConns: splice(0, 1) removes one entry
handleClearClosedConnsFirst ==
    /\ ~isActive
    /\ disconnectedData' = IF disconnectedData = <<>> THEN <<>> ELSE Tail(disconnectedData)
    /\ lastCall' = [op |-> "handleClearClosedConns"]
    /\ effects' = <<>>
    /\ UNCHANGED <<TrafficCache, dataSource, isActive, isPause, keywords, skipped, otherViews>>

\* the button is rendered in the closed view only (v-else of v-if="isActive")
handleClearClosedConns ==
    /\ ~isActive
    /\ disconnectedData' = <<>>
    /\ lastCall' = [op |-> "handleClearClosedConns"]
    /\ effects' = <<>>
    /\ UNCHANGED <<TrafficCache, dataSource, isActive, isPause, keywords, skipped, otherViews>>

\* variant of CloseEffects: the catch block reports nothing
CloseEffectsSilent(record, ok) ==
    IF ~isActive THEN <<>> ELSE <<Effect("deleteConnection", record.id)>>

\* what the close handler does for a row, deleteConnection resolving (ok)
\* or rejecting
CloseEffects(record, ok) ==
    IF ~isActive
    THEN <<>>
    ELSE <<Effect("deleteConnection", record.id)>>
            \o (IF ok THEN <<>>
                ELSE <<Effect("console.log", "error"), Effect("message.error", "error")>>)

\* menu 'home.connections.close' on a row of the table
menuClose(record, ok) ==
    /\ effects' = CloseEffects(record, ok)
    /\ lastCall' = [op |-> "menuClose", id |-> record.id, ok |-> ok, live |-> isActive]
    /\ UNCHANGED <<ledger, isActive, isPause, keywords, skipped, otherViews>>

\* ignoredError(updateProvidersRules, ruleset), imported from '@/utils', whose
\* body is not among the sources: the call is made and, as the specification
\* has it of the provider refresh ("best-effort, failures are non-fatal
\* warnings", "failure at either step is reported to the caller"), a
\* rejection is reported as a warning and does not reach the handler's catch
IgnoredError(call, arg, ok) ==
    <<Effect(call, arg)>> \o (IF ok THEN <<>> ELSE <<Effect("warning", "error")>>)

\* variant of AddToEffects: the refresh is requested whether or not the
\* submission succeeded
AddToEffectsRefreshAlways(ruleset, record, submitOk, refreshOk) ==
    <<Effect("addToRuleSet", <<ruleset, RuleOf(record)>>)>>
        \o IgnoredError("updateProvidersRules", ruleset, refreshOk)
        \o (IF submitOk
            THEN <<Effect("message.success", "common.success")>>
            ELSE <<Effect("message.error", "error"), Effect("console.log", "error")>>)

\* what an addTo handler does for a row: addToRuleSet resolving (submitOk)
\* or rejecting, then updateProvidersRules resolving (refreshOk) or rejecting
AddToEffects(ruleset, record, submitOk, refreshOk) ==
    <<Effect("addToRuleSet", <<ruleset, RuleOf(record)>>)>>
        \o (IF submitOk
            THEN IgnoredError("updateProvidersRules", ruleset, refreshOk)
                    \o <<Effect("message.success", "common.success")>>
            ELSE <<Effect("message.error", "error"), Effect("console.log", "error")>>)

\* menu 'home.connections.addToDirect' / addToProxy / addToReject on a row
menuAddTo(ruleset, record, submitOk, refreshOk) ==
    /\ effects' = AddToEffects(ruleset, record, submitOk, refreshOk)
    /\ lastCall' = [op |-> "menuAddTo", ruleset |-> ruleset, record |-> record,
                    submitOk |-> submitOk, refreshOk |-> refreshOk]
    /\ UNCHANGED <<ledger, isActive, isPause, keywords, skipped, otherViews>>

\* dataSource.value.map((connection) => deleteConnection(connection.id));
\* failed holds the positions whose call rejects; Promise.all then rejects
\* and nothing in handleCloseAll catches it
CloseAllEffects(failed) ==
    [i \in 1..Len(dataSource) |-> Effect("deleteConnection", dataSource[i].id)]
        \o (IF failed = {} THEN <<>> ELSE <<Effect("unhandledrejection", "error")>>)

\* the button is rendered in the live view only (v-if="isActive")
handleCloseAll(failed) ==
    /\ isActive
    /\ effects' = CloseAllEffects(failed)
    /\ lastCall' = [op |-> "handleCloseAll", failed |-> failed]
    /\ UNCHANGED <<ledger, isActive, isPause, keywords, skipped, otherViews>>

\* ---------------------------------------------------------------- QuickStart
\* String.prototype.toLocaleLowerCase over the letters of Urls
toLocaleLowerCase(s) ==
    [i \in 1..Len(s) |->
        CASE s[i] = "H" -> "h"
          [] s[i] = "T" -> "t"
          [] s[i] = "P" -> "p"
          [] OTHER -> s[i]]

startsWith(s, prefix) ==
    Len(s) >= Len(prefix) /\ SubSeq(s, 1, Len(prefix)) = prefix

\* the negation of the test of the first line of handleSubmit
Submittable(u) ==
    u # <<>> /\ startsWith(toLocaleLowerCase(u), <<"h", "t", "t", "p">>)

\* the catch block of the first try
Caught == <<Effect("console.log", "error"), Effect("message.error", "error")>>

\* the catch block of the second try
Warned ==
    <<Effect("console.log", "error"), Effect("message.warn", "error"),
      Effect("message.warn", "home.initFailed")>>

\* handleSubmit suspended at the await of `call`, having issued `issued`
Awaiting(call, profileID, subscribeID, issued) ==
    [at |-> call, profileID |-> profileID, subscribeID |-> subscribeID,
     issued |-> issued]

\* what lastCall records of a handleSubmit that got past its first line
Submitting(returned, failure) ==
    [op |-> "handleSubmit", submitted |-> TRUE, returned |-> returned,
     failure |-> failure]

\* the Save button, up to the first await; profileID and subscribeID are the
\* first two results of sampleID()
handleSubmit(profileID, subscribeID) ==
    /\ open
    /\ pending = Idle
    /\ IF ~Submittable(url)
       THEN /\ lastCall' = [op |-> "handleSubmit", submitted |-> FALSE,
                            returned |-> TRUE]
            /\ effects' = <<>>
            /\ UNCHANGED <<loading, pending>>
       ELSE /\ loading' = TRUE
            /\ effects' = <<Effect("addSubscribe", [id |-> subscribeID, url |-> url])>>
            /\ pending' = Awaiting("addSubscribe", profileID, subscribeID, effects')
            /\ lastCall' = Submitting(FALSE, "none")
    /\ UNCHANGED <<url, kernelProfile, open, controller, editor>>

\* await subscribeStore.addSubscribe(subscribe) resolves (ok) or rejects
handleSubmitAddedSubscribe(ok) ==
    /\ pending.at = "addSubscribe"
    /\ IF ok
       THEN /\ effects' = pending.issued
                    \o <<Effect("addProfile",
                                [id |-> pending.profileID,
                                 use |-> <<pending.subscribeID>>])>>
            /\ pending' = [pending EXCEPT !.at = "addProfile", !.issued = effects']
            /\ lastCall' = Submitting(FALSE, "none")
       ELSE /\ effects' = pending.issued \o Caught
            /\ pending' = Idle
            /\ lastCall' = Submitting(TRUE, "addSubscribe")
    /\ UNCHANGED <<url, loading, kernelProfile, open, controller, editor>>

\* variant of handleSubmitAddedProfile: the catch block does not return
handleSubmitAddedProfileGoingOn(ok) ==
    /\ pending.at = "addProfile"
    /\ effects' = pending.issued
            \o (IF ok THEN <<>> ELSE Caught)
            \o <<Effect("message.success", "home.initSuccessful"),
                 Effect("updateSubscribe", pending.subscribeID)>>
    /\ kernelProfile' = IF ok THEN pending.profileID ELSE kernelProfile
    /\ pending' = [pending EXCEPT !.at = "updateSubscribe", !.issued = effects']
    /\ lastCall' = Submitting(FALSE, IF ok THEN "none" ELSE "addProfile")
    /\ UNCHANGED <<url, loading, open, controller, editor>>

\* await profilesStore.addProfile(profile) resolves (ok) or rejects
handleSubmitAddedProfile(ok) ==
    /\ pending.at = "addProfile"
    /\ IF ok
       THEN /\ kernelProfile' = pending.profileID
            /\ effects' = pending.issued
                    \o <<Effect("message.success", "home.initSuccessful"),
                         Effect("updateSubscribe", pending.subscribeID)>>
            /\ pending' = [pending EXCEPT !.at = "updateSubscribe", !.issued = effects']
            /\ lastCall' = Submitting(FALSE, "none")
       ELSE /\ effects' = pending.issued \o Caught
            /\ pending' = Idle
            /\ lastCall' = Submitting(TRUE, "addProfile")
            /\ UNCHANGED kernelProfile
    /\ UNCHANGED <<url, loading, open, controller, editor>>

\* await subscribeStore.updateSubscribe(subscribe.id) resolves (ok) or
\* rejects; handleCancel closes the dialog
handleSubmitUpdatedSubscribe(ok) ==
    /\ pending.at = "updateSubscribe"
    /\ effects' = pending.issued
            \o (IF ok THEN <<>> ELSE Warned)
            \o <<Effect("handleCancel", "")>>
    /\ loading' = FALSE
    /\ open' = FALSE
    /\ pending' = Idle
    /\ lastCall' = Submitting(TRUE, IF ok THEN "none" ELSE "updateSubscribe")
    /\ UNCHANGED <<url, kernelProfile, controller, editor>>

\* the input bound to url
setUrl(u) ==
    /\ open
    /\ url' = u
    /\ lastCall' = [op |-> "setUrl"]
    /\ effects' = <<>>
    /\ UNCHANGED <<loading, kernelProfile, open, pending, controller, editor>>

\* ---------------------------------------------------------------- proxy groups
\* s with its i-th element left out
Spliced(s, i) == SubSeq(s, 1, i - 1) \o SubSeq(s, i + 1, Len(s))

\* findIndex((v) => v === x), counted from 1; 0 when there is none
IndexOf(s, x) ==
    IF \E i \in 1..Len(s) : s[i] = x
    THEN CHOOSE i \in 1..Len(s) : s[i] = x /\ \A j \in 1..(i - 1) : s[j] # x
    ELSE 0

\* findIndex((v) => v.id === id), counted from 1; 0 when there is none
IndexOfId(s, id) ==
    IF \E i \in 1..Len(s) : s[i].id = id
    THEN CHOOSE i \in 1..Len(s) : s[i].id = id /\ \A j \in 1..(i - 1) : s[j].id # id
    ELSE 0

\* subscribesStore.getSubscribeById, of the store that is not among the
\* sources: the subscriptions of that id
getSubscribeById(id) == { i \in 1..Len(subscribes) : subscribes[i].id = id }

\* the predicate of the filter of g.proxies in handleClearGroup
ClearKeeps(proxy) ==
    IF proxy.type = "Built-In"
    THEN IF proxy.name \in {"DIRECT", "REJECT"}
         THEN TRUE
         ELSE \E i \in 1..Len(groups) : groups[i].id = proxy.id
    ELSE /\ getSubscribeById(proxy.type) # {}
         /\ \E i \in getSubscribeById(proxy.type) :
               \E j \in 1..Len(subscribes[i].proxies) :
                   subscribes[i].proxies[j].id = proxy.id

\* the predicate of the filter of g.use in handleClearGroup
InStore(v) == \E i \in 1..Len(subscribes) : subscribes[i].id = v

hasLost(g) ==
    LET isProxiesLost ==
            \E k \in 1..Len(g.proxies) :
                IF g.proxies[k].type = "Built-In"
                THEN IF g.proxies[k].id \in {"DIRECT", "REJECT"}
                     THEN FALSE
                     ELSE \A i \in 1..Len(groups) : groups[i].id # g.proxies[k].id
                ELSE \/ getSubscribeById(g.proxies[k].type) = {}
                     \/ \A i \in getSubscribeById(g.proxies[k].type) :
                           \A j \in 1..Len(subscribes[i].proxies) :
                               subscribes[i].proxies[j].id # g.proxies[k].id
        isUseLost ==
            \E k \in 1..Len(g.use) :
                \A i \in 1..Len(subscribes) : subscribes[i].id # g.use[k]
    IN  isProxiesLost \/ isUseLost

\* the frame of the handlers of the editor
EditorFrame == UNCHANGED <<controller, quickStart, effects>>

\* the add button of the parent, through defineExpose
handleAdd ==
    /\ ~showModal
    /\ sampled < MaxSampled
    /\ sampled' = sampled + 1
    /\ updateGroupId' = -1
    /\ fields' = Fields(SampledId(sampled'), "")
    /\ showModal' = TRUE
    /\ lastCall' = [op |-> "handleAdd"]
    /\ UNCHANGED <<groups, proxyGroup>>
    /\ EditorFrame

\* the input bound to fields.name
setName(n) ==
    /\ showModal
    /\ fields' = [fields EXCEPT !.name = n]
    /\ lastCall' = [op |-> "setName"]
    /\ UNCHANGED <<groups, updateGroupId, showModal, proxyGroup, sampled>>
    /\ EditorFrame

\* a button of a selectable list of the form
handleAddProxy(groupID, proxyID, proxyName) ==
    /\ showModal
    /\ fields' =
        IF groupID = "Built-In" /\ proxyID = fields.id
        THEN fields
        ELSE IF groupID = "Subscribes"
        THEN LET idx == IndexOf(fields.use, proxyID)
             IN  [fields EXCEPT !.use =
                    IF idx # 0 THEN Spliced(@, idx) ELSE Append(@, proxyID)]
        ELSE LET idx == IndexOfId(fields.proxies, proxyID)
             IN  [fields EXCEPT !.proxies =
                    IF idx # 0 THEN Spliced(@, idx)
                    ELSE Append(@, Option(proxyID, proxyName, groupID))]
    /\ Len(fields'.proxies) <= MaxProxies
    /\ lastCall' = [op |-> "handleAddProxy"]
    /\ UNCHANGED <<groups, updateGroupId, showModal, proxyGroup, sampled>>
    /\ EditorFrame

\* @ok of the modal of the form, which closes it
handleAddEnd ==
    /\ showModal
    /\ showModal' = FALSE
    /\ LET entry == Option(fields.id, fields.name, fields.type)
       IN  IF updateGroupId = -1
           THEN /\ groups' = <<fields>> \o groups
                /\ proxyGroup' =
                       [proxyGroup EXCEPT ![1].proxies = <<entry>> \o @]
           ELSE /\ groups' = [groups EXCEPT ![updateGroupId + 1] = fields]
                /\ LET idx == IndexOfId(proxyGroup[1].proxies, fields.id)
                   IN  proxyGroup' =
                           IF idx # 0
                           THEN [proxyGroup EXCEPT ![1].proxies[idx] = entry]
                           ELSE proxyGroup
    /\ lastCall' = [op |-> "handleAddEnd", added |-> updateGroupId = -1]
    /\ UNCHANGED <<updateGroupId, fields, sampled>>
    /\ EditorFrame

\* the modal of the form is closed without @ok
closeModal ==
    /\ showModal
    /\ showModal' = FALSE
    /\ lastCall' = [op |-> "closeModal"]
    /\ UNCHANGED <<groups, updateGroupId, proxyGroup, fields, sampled>>
    /\ EditorFrame

\* index counts from 0, as in the template's v-for
handleEditGroup(index) ==
    /\ ~showModal
    /\ updateGroupId' = index
    /\ fields' = groups[index + 1]
    /\ showModal' = TRUE
    /\ lastCall' = [op |-> "handleEditGroup"]
    /\ UNCHANGED <<groups, proxyGroup, sampled>>
    /\ EditorFrame

handleDeleteGroup(index) ==
    /\ ~showModal
    /\ LET name == groups[index + 1].name
       IN  /\ groups' = Spliced(groups, index + 1)
           /\ proxyGroup' =
                  [k \in 1..Len(proxyGroup) |->
                      [proxyGroup[k] EXCEPT
                          !.proxies = SelectSeq(@, LAMBDA v : v.name # name)]]
    /\ lastCall' = [op |-> "handleDeleteGroup", id |-> groups[index + 1].id]
    /\ UNCHANGED <<updateGroupId, showModal, fields, sampled>>
    /\ EditorFrame

\* the clear button of the card of groups[index], rendered when hasLost(g)
handleClearGroup(index) ==
    /\ ~showModal
    /\ hasLost(groups[index + 1])
    /\ groups' = [groups EXCEPT
                    ![index + 1].proxies = SelectSeq(@, ClearKeeps),
                    ![index + 1].use = SelectSeq(@, InStore)]
    /\ lastCall' = [op |-> "handleClearGroup", index |-> index]
    /\ UNCHANGED <<updateGroupId, showModal, proxyGroup, fields, sampled>>
    /\ EditorFrame

\* ---------------------------------------------------------------- runs
\* a batch arrives over the websocket
Arrives(data, room) ==
    /\ Len(disconnectedData) + Len(Disconnected(dataSource, ConnectionsOf(data))) <= room
    /\ onConnections(data)

Next ==
    \/ \E data \in Payloads : Arrives(data, MaxClosed)
    \/ togglePause
    \/ \E v \in BOOLEAN : selectActive(v)
    \/ handleClearClosedConns
    \/ \E i \in 1..Len(filteredConnections), ok \in BOOLEAN :
            menuClose(filteredConnections[i], ok)
    \/ \E failed \in SUBSET (1..Len(dataSource)) : handleCloseAll(failed)

\* the ledger over idle connections: batches, pause, the two views, clearing
\* the closed set, closing one connection and closing all
Spec == Init /\ [][Next]_vars

NextView ==
    \/ \E data \in Payloads : Arrives(data, MaxClosed)
    \/ \E v \in BOOLEAN : selectActive(v)
    \/ \E k \in Keywords : setKeywords(k)
    \/ \E ruleset \in Rulesets, i \in 1..Len(filteredConnections),
          submitOk \in BOOLEAN, refreshOk \in BOOLEAN :
            menuAddTo(ruleset, filteredConnections[i], submitOk, refreshOk)

\* the table: the keyword filter over either view and the add-to-rule-set
\* entries of the row menu
SpecView == Init /\ [][NextView]_vars

NextTraffic ==
    \/ \E data \in TrafficPayloads : Arrives(data, MaxTrafficClosed)
    \/ togglePause

\* one connection whose counters move, with pause and resume
SpecTraffic == Init /\ [][NextTraffic]_vars

NextQuick ==
    \/ \E u \in Urls : setUrl(u)
    \/ \E profileID \in SampleIds, subscribeID \in SampleIds :
            handleSubmit(profileID, subscribeID)
    \/ \E ok \in BOOLEAN : handleSubmitAddedSubscribe(ok)
    \/ \E ok \in BOOLEAN : handleSubmitAddedProfile(ok)
    \/ \E ok \in BOOLEAN : handleSubmitUpdatedSubscribe(ok)

\* the QuickStart dialog: typing a url and saving, until the dialog closes
SpecQuick == Init /\ [][NextQuick]_vars

NextGroups ==
    \/ handleAdd
    \/ \E n \in Names : setName(n)
    \/ \E k \in 1..Len(proxyGroup) : \E j \in 1..Len(proxyGroup[k].proxies) :
            handleAddProxy(proxyGroup[k].id, proxyGroup[k].proxies[j].id,
                           proxyGroup[k].proxies[j].name)
    \/ handleAddEnd
    \/ closeModal
    \/ \E index \in 0..(Len(groups) - 1) : handleEditGroup(index)
    \/ \E index \in 0..(Len(groups) - 1) : handleDeleteGroup(index)
    \/ \E index \in 0..(Len(groups) - 1) : handleClearGroup(index)

\* the proxy-group editor: adding, editing, deleting and clearing groups
SpecGroups == Init /\ [][NextGroups]_vars

\* ---------------------------------------------------------------- properties
\* the handler that ran last applied a batch (it was not paused)
Applied == lastCall.op = "onConnections" /\ lastCall.applied

\* the identities of the batch the last call applied
BatchIds == IdsOf(ConnectionsOf(lastCall.data))

\* the entries of s whose identity is not in ids, in the order of s
RECURSIVE Without(_, _)
Without(s, ids) ==
    IF s = <<>> THEN <<>>
    ELSE (IF Head(s).id \in ids THEN <<>> ELSE <<Head(s)>>) \o Without(Tail(s), ids)

\* C1: after onConnections applies a batch while not paused, the identities
\* of the live set are exactly the identities of that batch, whatever the
\* earlier batches held.
C1_LiveIsBatch == Applied => IdsOf(dataSource) = BatchIds

\* a batch of c2 alone was applied after c1 had been live
C1_Witness ==
    /\ Applied
    /\ BatchIds = {"c2"}
    /\ IdsOf(dataSource) = {"c2"}
    /\ "c1" \in IdsOf(disconnectedData)

\* C2: the upload and download speeds of every live entry (upload - up,
\* download - down) are never negative.
C2_RatesNonNegative ==
    \A i \in 1..Len(dataSource) :
        UploadSpeed(dataSource[i]) >= 0 /\ DownSpeed(dataSource[i]) >= 0

\* C3: when a batch is applied, the live entries whose identity is absent
\* from the batch are appended to the closed set, after the entries already
\* there and in the order they had in the live set, and none of them is
\* live afterwards.
C3_ClosedAppended ==
    [][(lastCall'.op = "onConnections" /\ lastCall'.applied) =>
        LET gone == Without(dataSource, IdsOf(ConnectionsOf(lastCall'.data)))
        IN  /\ disconnectedData' = disconnectedData \o gone
            /\ IdsOf(gone) \cap IdsOf(dataSource') = {}]_vars

\* c1 was already closed when a batch without c2 closed c2
C3_Witness ==
    /\ Applied
    /\ Len(disconnectedData) = 2
    /\ disconnectedData[1].id = "c1"
    /\ disconnectedData[2].id = "c2"
    /\ "c2" \notin IdsOf(dataSource)

\* no identity is in the live set and in the closed set
Exclusive == IdsOf(dataSource) \cap IdsOf(disconnectedData) = {}

\* C4 as stated: in every reachable state no identity is both live and
\* closed.
C4_Exclusive == Exclusive

\* C4 as amended: a step leaves the two sets without a common identity,
\* unless it applies a batch holding an identity that is in the closed set
\* (a connection that reappears after it closed).
C4_ExclusiveUnlessReappears ==
    [][(/\ Exclusive
        /\ ~(/\ lastCall'.op = "onConnections"
             /\ lastCall'.applied
             /\ IdsOf(ConnectionsOf(lastCall'.data)) \cap IdsOf(disconnectedData) # {}))
        => Exclusive']_vars

\* c1 closed while c2 stayed live
C4_Witness ==
    /\ Applied
    /\ IdsOf(dataSource) = {"c2"}
    /\ IdsOf(disconnectedData) = {"c1"}

\* C5: when the close entry of the menu is used on a live row and
\* deleteConnection resolves, the identity leaves the live set at once and
\* the closed set is not touched.
C5_CloseRemoves ==
    [][(lastCall'.op = "menuClose" /\ lastCall'.live /\ lastCall'.ok) =>
        /\ lastCall'.id \notin IdsOf(dataSource')
        /\ disconnectedData' = disconnectedData]_vars

\* C6: when the close entry of the menu is used on a live row and
\* deleteConnection rejects, the error is reported with message.error and
\* the live set, the closed set and the traffic cache are as before.
C6_FailedCloseKeeps ==
    [][(lastCall'.op = "menuClose" /\ lastCall'.live /\ ~lastCall'.ok) =>
        /\ \E i \in 1..Len(effects') : effects'[i] = Effect("message.error", "error")
        /\ dataSource' = dataSource
        /\ disconnectedData' = disconnectedData
        /\ TrafficCache' = TrafficCache
        /\ lastCall'.id \in IdsOf(dataSource')]_vars

\* the close of a live row failed, with both sets non-empty
C6_Witness ==
    /\ lastCall.op = "menuClose"
    /\ lastCall.live
    /\ ~lastCall.ok
    /\ lastCall.id \in IdsOf(dataSource)
    /\ disconnectedData # <<>>

\* C7: handleClearClosedConns leaves the closed set empty and the live set
\* as it was.
C7_ClearClosed ==
    [][lastCall'.op = "handleClearClosedConns" =>
        disconnectedData' = <<>> /\ dataSource' = dataSource]_vars

\* the closed set was cleared of c1 (cached, and no longer live) while c2
\* was live
C7_Witness ==
    /\ lastCall.op = "handleClearClosedConns"
    /\ disconnectedData = <<>>
    /\ IdsOf(dataSource) = {"c2"}
    /\ "c1" \in DOMAIN TrafficCache

\* C8: the first batch applied after a pause during which a batch arrived
\* is the new baseline: every live entry has its own counters as baseline,
\* as on a first observation, and not the counters cached before the pause.
C8_FreshBaselineAfterResume ==
    (Applied /\ lastCall.afterGap) =>
        \A i \in 1..Len(dataSource) :
            /\ dataSource[i].up = dataSource[i].upload
            /\ dataSource[i].down = dataSource[i].download

\* C9: an addTo entry of the menu submits, once and to the rule set of the
\* entry, "DOMAIN,<host>" for a row with a host and
\* "IP-CIDR,<destinationIP>/32,no-resolve" for a row without one.
C9_RuleExpression ==
    lastCall.op = "menuAddTo" =>
        LET metadata == lastCall.record.metadata
            expected ==
                IF metadata.host # <<>>
                THEN <<"D", "O", "M", "A", "I", "N", ",">> \o metadata.host
                ELSE <<"I", "P", "-", "C", "I", "D", "R", ",">>
                        \o metadata.destinationIP
                        \o <<"/", "3", "2", ",", "n", "o", "-",
                             "r", "e", "s", "o", "l", "v", "e">>
        IN  /\ Cardinality({ i \in 1..Len(effects) : effects[i].call = "addToRuleSet" }) = 1
            /\ effects[1].call = "addToRuleSet"
            /\ effects[1].arg = <<lastCall.ruleset, expected>>

\* a row with a host was added to one rule set
C9_Witness ==
    /\ lastCall.op = "menuAddTo"
    /\ lastCall.ruleset = "proxy"
    /\ lastCall.record.metadata.host = <<"A", "b">>
    /\ effects[1].arg = <<"proxy", <<"D", "O", "M", "A", "I", "N", ",", "A", "b">>>>

\* part occurs in text as a run of consecutive characters
Contains(text, part) ==
    \E i \in 0..Len(text) : \E j \in i..Len(text) : SubSeq(text, i + 1, j) = part

\* the entries of s whose host contains k, in the order of s
RECURSIVE Matching(_, _)
Matching(s, k) ==
    IF s = <<>> THEN <<>>
    ELSE (IF Contains(Head(s).metadata.host, k) THEN <<Head(s)>> ELSE <<>>)
            \o Matching(Tail(s), k)

\* C10: filteredConnections is the selected set (live when isActive, closed
\* otherwise) restricted to the entries whose host contains the keyword,
\* case-sensitively, in the order of the selected set; with an empty
\* keyword it is the whole selected set.
C10_Filtered ==
    LET selected == IF isActive THEN dataSource ELSE disconnectedData
    IN  /\ filteredConnections = Matching(selected, keywords)
        /\ keywords = <<>> => filteredConnections = selected

\* the keyword "b" keeps the closed entry of c1 and drops that of c2
C10_Witness ==
    /\ ~isActive
    /\ keywords = <<"b">>
    /\ IdsOf(disconnectedData) = {"c1", "c2"}
    /\ IdsOf(filteredConnections) = {"c1"}

\* the positions of s that hold identity id
Places(s, id) == { i \in 1..Len(s) : s[i].id = id }

\* C11: applying the batch that was just applied once more leaves the live
\* identities and the closed set as they were and gives every live entry
\* an upload speed and a download speed of zero.
C11_ReplayIsQuiet ==
    [][(/\ lastCall.op = "onConnections" /\ lastCall.applied
        /\ lastCall'.op = "onConnections" /\ lastCall'.applied
        /\ lastCall'.data = lastCall.data) =>
        /\ IdsOf(dataSource') = IdsOf(dataSource)
        /\ disconnectedData' = disconnectedData
        /\ \A i \in 1..Len(dataSource') :
              UploadSpeed(dataSource'[i]) = 0 /\ DownSpeed(dataSource'[i]) = 0]_vars

\* C12: an identity that no applied batch held before gets its own counters
\* as baseline, so both its speeds are zero.
C12_FirstBaselineIsOwn ==
    [][(lastCall'.op = "onConnections" /\ lastCall'.applied) =>
        \A i \in 1..Len(dataSource') :
            dataSource'[i].id \notin DOMAIN TrafficCache =>
                /\ dataSource'[i].up = dataSource'[i].upload
                /\ dataSource'[i].down = dataSource'[i].download]_vars

\* C13: for an identity held (once) by two batches applied one after the
\* other, the baseline stored after the second is the pair of counters the
\* first reported, zero included.
C13_BaselineIsPrevious ==
    [][(lastCall'.op = "onConnections" /\ lastCall'.applied) =>
        \A p \in 1..Len(dataSource), q \in 1..Len(dataSource') :
            (/\ dataSource[p].id = dataSource'[q].id
             /\ Places(dataSource, dataSource[p].id) = {p}
             /\ Places(dataSource', dataSource[p].id) = {q}) =>
                /\ dataSource'[q].up = dataSource[p].upload
                /\ dataSource'[q].down = dataSource[p].download]_vars

\* C14: the live set never holds two entries of one identity.
C14_OneEntryPerIdentity ==
    \A i \in 1..Len(dataSource), j \in 1..Len(dataSource) :
        dataSource[i].id = dataSource[j].id => i = j

\* C15: an identity that is in the closed set and not live, and that an
\* applied batch holds again (once), becomes live with its own counters as
\* baseline (speeds of zero), and the entries of the closed set stay as
\* they were.
C15_ReappearsFresh ==
    [][(lastCall'.op = "onConnections" /\ lastCall'.applied) =>
        \A q \in 1..Len(dataSource') :
            (/\ dataSource'[q].id \in IdsOf(disconnectedData)
             /\ dataSource'[q].id \notin IdsOf(dataSource)
             /\ Places(dataSource', dataSource'[q].id) = {q}) =>
                /\ dataSource'[q].up = dataSource'[q].upload
                /\ dataSource'[q].down = dataSource'[q].download
                /\ SubSeq(disconnectedData', 1, Len(disconnectedData)) = disconnectedData]_vars

\* C16: a batch that arrives while paused is discarded: the live set, the
\* closed set and the traffic cache are as before; and nothing is kept of
\* it to be applied later: resuming changes none of the three, and the
\* next applied batch leaves the identities of that batch alone in the
\* live set.
C16_PausedBatchDiscarded ==
    [][/\ (lastCall'.op = "onConnections" /\ isPause) =>
            /\ ~lastCall'.applied
            /\ UNCHANGED <<TrafficCache, dataSource, disconnectedData>>
       /\ lastCall'.op = "togglePause" =>
            UNCHANGED <<TrafficCache, dataSource, disconnectedData>>
       /\ (lastCall'.op = "onConnections" /\ ~isPause /\ skipped) =>
            IdsOf(dataSource') = IdsOf(ConnectionsOf(lastCall'.data))]_vars

\* a batch was discarded while c1 was live
C16_Witness ==
    /\ isPause
    /\ lastCall.op = "onConnections"
    /\ ~lastCall.applied
    /\ IdsOf(dataSource) = {"c1"}

\* C17: handleCloseAll issues deleteConnection exactly once for every
\* identity of the live set, whichever of the calls fail, and changes
\* neither the live set nor the closed set.
C17_CloseAllOncePerIdentity ==
    [][lastCall'.op = "handleCloseAll" =>
        /\ \A id \in IdsOf(dataSource) :
              Cardinality({ i \in 1..Len(effects') :
                              /\ effects'[i].call = "deleteConnection"
                              /\ effects'[i].arg = id }) = 1
        /\ UNCHANGED <<dataSource, disconnectedData>>]_vars

\* C18: every deleteConnection that fails in handleCloseAll is reported to
\* the user: there are as many message.error reports as failed calls.
C18_EachFailureReported ==
    lastCall.op = "handleCloseAll" =>
        Cardinality({ i \in 1..Len(effects) : effects[i].call = "message.error" })
            = Cardinality(lastCall.failed)

\* the names of the calls and messages of the last handler, in order
CallsOf(e) == [i \in 1..Len(e) |-> e[i].call]

C20_ClosedWhilePausedIsKept ==
    [][/\ (lastCall'.op = "onConnections" /\ ~lastCall'.applied) =>
            dataSource' = dataSource
       /\ lastCall'.op = "togglePause" => dataSource' = dataSource
       /\ (lastCall'.op = "onConnections" /\ lastCall'.applied /\ lastCall'.afterGap) =>
            disconnectedData' = disconnectedData
                \o Without(dataSource, IdsOf(ConnectionsOf(lastCall'.data)))]_vars

\* c1, live with an upload counter of 1 before the pause, is closed by the
\* first batch applied after a batch was discarded
C20_Witness ==
    /\ Applied
    /\ lastCall.afterGap
    /\ lastCall.gone = 1
    /\ dataSource = <<>>
    /\ Len(disconnectedData) = 1
    /\ disconnectedData[1].id = "c1"
    /\ disconnectedData[1].upload = 1

\* C21: whenever handleSubmit has returned after setting loading to true,
\* whichever call failed, loading is false.
C21_LoadingReset ==
    (lastCall.op = "handleSubmit" /\ lastCall.submitted /\ lastCall.returned) =>
        ~loading

\* the number of calls of updateSubscribe among the effects e
Updates(e) == Cardinality({ i \in 1..Len(e) : e[i].call = "updateSubscribe" })

\* C22: handleSubmit selects the new profile, calls updateSubscribe and
\* closes the dialog only after addSubscribe and then addProfile were called
\* and neither failed; once both succeeded it has done all three when it
\* returns, whether or not updateSubscribe failed; with a url that is empty
\* or does not begin with "http" in any case of letters it calls nothing.
C22_InitialisedBeforeSelected ==
    [][lastCall'.op = "handleSubmit" =>
        LET calls == CallsOf(effects')
        IN  /\ (\/ kernelProfile' # kernelProfile
                \/ open' # open
                \/ (pending # Idle /\ Updates(effects') > Updates(pending.issued))) =>
                    /\ SubSeq(calls, 1, 2) = <<"addSubscribe", "addProfile">>
                    /\ "message.error" \notin Range(calls)
                    /\ lastCall'.failure \in {"none", "updateSubscribe"}
            /\ (/\ lastCall'.submitted
                /\ lastCall'.returned
                /\ lastCall'.failure \in {"none", "updateSubscribe"}) =>
                    /\ kernelProfile' = pending.profileID
                    /\ ~open'
                    /\ Updates(effects') = 1
            /\ (/\ pending = Idle
                /\ \/ url = <<>>
                   \/ ~(/\ Len(url) >= 4
                        /\ url[1] \in {"h", "H"} /\ url[2] \in {"t", "T"}
                        /\ url[3] \in {"t", "T"} /\ url[4] \in {"p", "P"})) =>
                    effects' = <<>> /\ UNCHANGED quickStart]_vars

\* updateSubscribe failed after a url in mixed case was submitted: the
\* dialog is closed and the new profile is selected
C22_Witness ==
    /\ lastCall.op = "handleSubmit"
    /\ lastCall.submitted
    /\ lastCall.returned
    /\ lastCall.failure = "updateSubscribe"
    /\ kernelProfile # NoProfile
    /\ ~open
    /\ \E i \in 1..Len(effects) :
          effects[i].call = "addSubscribe" /\ effects[i].arg.url[1] = "H"

\* C23: when handleClearGroup has run on a group, hasLost of that group is
\* false: what the clearing keeps, the lost-check finds.
C23_ClearedHasNothingLost ==
    lastCall.op = "handleClearGroup" => ~hasLost(groups[lastCall.index + 1])

\* the entries of the Built-In list
BuiltIn == proxyGroup[1].proxies

\* the Built-In list holds DIRECT, REJECT, one entry with the id and the name
\* of every group, and no other entry
BuiltInMatchesGroups ==
    /\ \A id \in {"DIRECT", "REJECT"} :
          \E k \in 1..Len(BuiltIn) : BuiltIn[k].id = id /\ BuiltIn[k].name = id
    /\ \A i \in 1..Len(groups) :
          Cardinality({ k \in 1..Len(BuiltIn) :
                          /\ BuiltIn[k].id = groups[i].id
                          /\ BuiltIn[k].name = groups[i].name }) = 1
    /\ \A k \in 1..Len(BuiltIn) :
          \/ BuiltIn[k].id \in {"DIRECT", "REJECT"}
          \/ \E i \in 1..Len(groups) : groups[i].id = BuiltIn[k].id

\* C24: once the form is closed, the Built-In list holds DIRECT, REJECT and
\* exactly one entry, of the same id and name, for every group of the list
\* of groups, and none for a deleted group; and handleDeleteGroup removes
\* from the selectable lists no entry but that of the group it deletes.
C24_SelectableFollowsGroups ==
    [][/\ ~showModal' => BuiltInMatchesGroups'
       /\ lastCall'.op = "handleDeleteGroup" =>
            \A k \in 1..Len(proxyGroup) : \A j \in 1..Len(proxyGroup[k].proxies) :
                proxyGroup[k].proxies[j].id # lastCall'.id =>
                    \E m \in 1..Len(proxyGroup'[k].proxies) :
                        proxyGroup'[k].proxies[m] = proxyGroup[k].proxies[j]]_vars

====
